---- MODULE Spec2Model ----
(***************************************************************************)
(* A model of RBucket<T> (src/src/lib.rs): a named FIFO queue of items     *)
(* with a log of polled items ("history") and two limits whose guards      *)
(* wipe the corresponding sequence when the limit is reached.              *)
(*                                                                         *)
(* Every method is a pure operator from a bucket value (a record with the  *)
(* struct's five fields) to the bucket it leaves behind, and where the     *)
(* method returns something, to that as well.  The actions apply the       *)
(* operators to the one bucket `b`.  Option<T> is a sequence of length 0   *)
(* (None) or 1 (Some).  A history entry is the pair <<snapshot, epoch>>.   *)
(***************************************************************************)
EXTENDS Integers, Sequences, FiniteSets, TLC

VARIABLES
    b,        \* the bucket: [name, items, history, history_limit, items_limit]
    now,      \* the wall clock, whole seconds since the epoch
    last,     \* the last method called, what it returned, whether it panicked
    cloned,   \* the value the last call returned when it was clone(): <<bucket>>
    run,      \* arguments of the add_item calls made in a row since items was empty
    pollcnt,  \* successful polls made since history was empty, 0 when not counting
    added,    \* FIFO scenario: the arguments of the add_item calls
    polls,    \* FIFO scenario: the results of the poll calls
    th,       \* threads scenario: where each thread is, and the mutex
    inserted  \* how often each item was inserted, while no guard fired and
              \* nothing was cleared

vars == <<b, now, last, cloned, run, pollcnt, added, polls, th, inserted>>

\* ---- bounds of the model ------------------------------------------------
MaxLimit == 2   \* explicit limits are -1..MaxLimit
MaxBatch == 2   \* add_items batches have up to MaxBatch items
MaxClock == 1   \* the clock runs over 0..MaxClock
MaxAdds  == 3   \* FIFO scenario: at most MaxAdds add_item calls
MaxThreads == 3 \* threads scenario: 1..MaxThreads threads

\* ---- program constants --------------------------------------------------
DefaultLimit == 100

\* Calls that would make items or history longer than this are not explored.
MaxLen == MaxLimit + 1

\* The bucket never inspects an item (T is only Clone + Debug): two values that
\* can be told apart are enough to observe order, identity and duplication.
Item == {1, 2}
Limits == (-1)..MaxLimit
None == <<>>
Some(x) == <<x>>
OptLimits == {None} \cup {Some(l) : l \in Limits}
Names == {"test"}
Batches == UNION {[1..n -> Item] : n \in 0..MaxBatch}

unwrap_or(opt, dflt) == IF opt = None THEN dflt ELSE opt[1]

\* ---- the methods --------------------------------------------------------
new(name, history_limit, items_limit) ==
    [name          |-> name,
     items         |-> <<>>,
     history       |-> <<>>,
     history_limit |-> unwrap_or(history_limit, DefaultLimit),
     items_limit   |-> unwrap_or(items_limit, DefaultLimit)]

\* An undo that restores at the front: the entry's items before the queue's.
undo_front(s) ==
    IF s.history # <<>>
    THEN LET e == s.history[Len(s.history)]
         IN  [s EXCEPT !.history = SubSeq(@, 1, Len(@) - 1),
                       !.items   = e[1] \o @]
    ELSE s

\* An undo that reads the last entry and leaves it in the log: last() for
\* pop().
undo_keep(s) ==
    IF s.history # <<>>
    THEN [s EXCEPT !.items = @ \o s.history[Len(s.history)][1]]
    ELSE s

\* An undo that respects the items limit: it restores only where add_item
\* would insert.
undo_guarded(s) ==
    IF s.history # <<>>
    THEN LET e == s.history[Len(s.history)]
             t == [s EXCEPT !.history = SubSeq(@, 1, Len(@) - 1)]
         IN  IF Len(t.items) >= t.items_limit
             THEN [t EXCEPT !.items = <<>>]
             ELSE [t EXCEPT !.items = @ \o e[1]]
    ELSE s

\* history.pop(), then items.extend(last_items): at the tail, no limit read.
undo(s) ==
    IF s.history # <<>>
    THEN LET e == s.history[Len(s.history)]
         IN  [s EXCEPT !.history = SubSeq(@, 1, Len(@) - 1),
                       !.items   = @ \o e[1]]
    ELSE s

clear_items(s) == [s EXCEPT !.items = <<>>]

clear_history(s) == [s EXCEPT !.history = <<>>]

set_history_limit(s, limit) == [s EXCEPT !.history_limit = limit]

\* A setter that enforces the new limit at once.
set_items_limit_enforce(s, limit) ==
    LET t == [s EXCEPT !.items_limit = limit]
    IN  IF Len(t.items) >= limit THEN [t EXCEPT !.items = <<>>] ELSE t

set_items_limit(s, limit) == [s EXCEPT !.items_limit = limit]

\* A limit test that is off by one: > for >=.
history_limit_reached_gt(s) == Len(s.history) > s.history_limit

\* `len() as i64 >= limit`: the lengths here are far from the i64 range.
history_limit_reached(s) == Len(s.history) >= s.history_limit

\* A guard that reports the limit reached and forgets to clear.
history_limit_guard_keep(s) ==
    IF history_limit_reached(s)
    THEN [b |-> s, ret |-> TRUE]
    ELSE [b |-> s, ret |-> FALSE]

\* The guards return the bucket they leave and the boolean they report.
history_limit_guard(s) ==
    IF history_limit_reached(s)
    THEN [b |-> [s EXCEPT !.history = <<>>], ret |-> TRUE]
    ELSE [b |-> s, ret |-> FALSE]

\* The same slip for the items limit.
items_limit_reached_gt(s) == Len(s.items) > s.items_limit

items_limit_reached(s) == Len(s.items) >= s.items_limit

items_limit_guard(s) ==
    IF items_limit_reached(s)
    THEN [b |-> [s EXCEPT !.items = <<>>], ret |-> TRUE]
    ELSE [b |-> s, ret |-> FALSE]

\* An add_item that inserts whether or not the guard has fired.
add_item_after_clear(s, item) ==
    LET g == items_limit_guard(s)
    IN  [g.b EXCEPT !.items = Append(@, item)]

add_item(s, item) ==
    LET g == items_limit_guard(s)
    IN  IF ~g.ret THEN [g.b EXCEPT !.items = Append(@, item)] ELSE g.b

\* An add_items that inserts as much of the batch as the limit has room for.
add_items_fill(s, its) ==
    LET g == items_limit_guard(s)
        room == s.items_limit - Len(s.items)
        part == IF Len(its) <= room THEN its ELSE SubSeq(its, 1, room)
    IN  IF ~g.ret THEN [g.b EXCEPT !.items = @ \o part] ELSE g.b

add_items(s, its) ==
    LET g == items_limit_guard(s)
    IN  IF ~g.ret THEN [g.b EXCEPT !.items = @ \o its] ELSE g.b

\* A poll at the wrong end of the queue: pop_back() for pop_front().
poll_back(s, epoch) ==
    IF s.items = <<>>
    THEN [b |-> s, ret |-> None, panic |-> FALSE]
    ELSE LET s1 == IF items_limit_reached(s) THEN items_limit_guard(s).b ELSE s
             s2 == IF history_limit_reached(s1) THEN history_limit_guard(s1).b ELSE s1
         IN  IF s2.items = <<>>
             THEN [b |-> s2, ret |-> None, panic |-> TRUE]
             ELSE LET i == s2.items[Len(s2.items)]
                  IN  [b     |-> [s2 EXCEPT !.items = SubSeq(@, 1, Len(@) - 1),
                                            !.history = Append(@, <<<<i>>, epoch>>)],
                       ret   |-> Some(i),
                       panic |-> FALSE]

\* A poll that logs at the wrong end: history.insert(0, ..) for history.push(..).
poll_insert_first(s, epoch) ==
    IF s.items = <<>>
    THEN [b |-> s, ret |-> None, panic |-> FALSE]
    ELSE LET s1 == IF items_limit_reached(s) THEN items_limit_guard(s).b ELSE s
             s2 == IF history_limit_reached(s1) THEN history_limit_guard(s1).b ELSE s1
         IN  IF s2.items = <<>>
             THEN [b |-> s2, ret |-> None, panic |-> TRUE]
             ELSE LET i == Head(s2.items)
                  IN  [b     |-> [s2 EXCEPT !.items = Tail(@),
                                            !.history = <<<<<<i>>, epoch>>>> \o @],
                       ret   |-> Some(i),
                       panic |-> FALSE]

\* A poll that runs its guards before it looks whether the queue is empty.
poll_guards_first(s, epoch) ==
    LET s1 == IF items_limit_reached(s) THEN items_limit_guard(s).b ELSE s
        s2 == IF history_limit_reached(s1) THEN history_limit_guard(s1).b ELSE s1
    IN  IF s2.items = <<>>
        THEN [b |-> s2, ret |-> None, panic |-> FALSE]
        ELSE LET i == Head(s2.items)
             IN  [b     |-> [s2 EXCEPT !.items = Tail(@),
                                       !.history = Append(@, <<<<i>>, epoch>>)],
                  ret   |-> Some(i),
                  panic |-> FALSE]

\* A poll that reads the front and leaves it in the queue: front() for
\* pop_front().
poll_peek(s, epoch) ==
    IF s.items = <<>>
    THEN [b |-> s, ret |-> None, panic |-> FALSE]
    ELSE LET s1 == IF items_limit_reached(s) THEN items_limit_guard(s).b ELSE s
             s2 == IF history_limit_reached(s1) THEN history_limit_guard(s1).b ELSE s1
         IN  IF s2.items = <<>>
             THEN [b |-> s2, ret |-> None, panic |-> TRUE]
             ELSE LET i == Head(s2.items)
                  IN  [b     |-> [s2 EXCEPT !.history = Append(@, <<<<i>>, epoch>>)],
                       ret   |-> Some(i),
                       panic |-> FALSE]

\* poll() reads the clock once, after the guards; `epoch` is that reading, a
\* time not before the epoch (duration_since(UNIX_EPOCH) is Ok).
\* When the guard of line 109 has emptied items, pop_front() is None and
\* unwrap() panics: the call does not return, and the bucket is left as the
\* guards left it (panic |-> TRUE).
poll(s, epoch) ==
    IF s.items = <<>>
    THEN [b |-> s, ret |-> None, panic |-> FALSE]
    ELSE LET s1 == IF items_limit_reached(s) THEN items_limit_guard(s).b ELSE s
             s2 == IF history_limit_reached(s1) THEN history_limit_guard(s1).b ELSE s1
         IN  IF s2.items = <<>>
             THEN [b |-> s2, ret |-> None, panic |-> TRUE]
             ELSE LET i == Head(s2.items)
                  IN  [b     |-> [s2 EXCEPT !.items = Tail(@),
                                            !.history = Append(@, <<<<i>>, epoch>>)],
                       ret   |-> Some(i),
                       panic |-> FALSE]

\* Every field is copied, history included (line 130).
clone(s) ==
    [name          |-> s.name,
     items         |-> s.items,
     history       |-> s.history,
     history_limit |-> s.history_limit,
     items_limit   |-> s.items_limit]

\* ---- bookkeeping --------------------------------------------------------
Fits(s) == Len(s.items) <= MaxLen /\ Len(s.history) <= MaxLen

\* pp: for an undo(), what the call before it returned when that was a poll().
Called(op, ret, fired, panic) ==
    [op |-> op, ret |-> ret, fired |-> fired, panic |-> panic,
     pp |-> IF op = "undo" /\ last.op = "poll" THEN last.ret ELSE None]

NoCall == [op |-> "new", ret |-> None, fired |-> FALSE, panic |-> FALSE, pp |-> None]

Scenario == <<added, polls, th>>

\* Everything a call can be given to insert: the items and the thread numbers.
Universe == Item \cup (1..MaxThreads)

Count(x, seq) == Cardinality({i \in 1..Len(seq) : seq[i] = x})

NothingInserted == [clean |-> TRUE, count |-> [x \in Universe |-> 0]]

\* A guard has fired or something was cleared, or nobody is counting.
NotCounted == [clean |-> FALSE, count |-> [x \in Universe |-> 0]]

\* The call inserted `its`, unless a guard fired in it.
Inserting(its, fired) ==
    inserted' = IF fired \/ ~inserted.clean
                THEN NotCounted
                ELSE [inserted EXCEPT
                         !.count = [x \in Universe |-> @[x] + Count(x, its)]]

\* The call inserted nothing; a guard may have fired in it.
Guarding(fired) == inserted' = IF fired THEN NotCounted ELSE inserted

\* What the FIFO scenario writes down for a poll() that did not return.
Panicked == <<0>>

\* No thread but the caller's, no mutex.
NoThreads == [pc |-> <<>>, holder |-> 0, poisoned |-> FALSE]

Fresh(limits, counting) ==
    /\ \E n \in Names, hl \in limits, il \in limits : b = new(n, hl, il)
    /\ now = 0
    /\ last = NoCall
    /\ cloned = <<>>
    /\ run = <<>>
    /\ pollcnt = 0
    /\ added = <<>>
    /\ polls = <<>>
    /\ inserted = IF counting THEN NothingInserted ELSE NotCounted

StartWith(limits) == Fresh(limits, FALSE) /\ th = NoThreads

\* ---- the specification: any calls in any order ----------------------------
\* Buckets built with explicit limits; the defaults are in SpecFifo.
Init == StartWith({Some(l) : l \in Limits})

Tick ==
    /\ now < MaxClock
    /\ now' = now + 1
    /\ UNCHANGED <<b, last, cloned, run, pollcnt, added, polls, th, inserted>>

AddItemCall(item) ==
    /\ Fits(add_item(b, item))
    /\ b' = add_item(b, item)
    /\ last' = Called("add_item", None, items_limit_guard(b).ret, FALSE)
    /\ run' = IF b.items = <<>> THEN <<item>>
              ELSE IF run # <<>> /\ Len(run) <= MaxLimit THEN Append(run, item)
              ELSE <<>>
    /\ cloned' = <<>>
    /\ Inserting(<<item>>, items_limit_guard(b).ret)
    /\ UNCHANGED <<now, pollcnt>>

AddItem == \E item \in Item : AddItemCall(item) /\ UNCHANGED Scenario

AddItemsCall(its) ==
    /\ Fits(add_items(b, its))
    /\ b' = add_items(b, its)
    /\ last' = Called("add_items", None, items_limit_guard(b).ret, FALSE)
    /\ run' = <<>>
    /\ cloned' = <<>>
    /\ Inserting(its, items_limit_guard(b).ret)
    /\ UNCHANGED <<now, pollcnt>>

AddItems == \E its \in Batches : AddItemsCall(its) /\ UNCHANGED Scenario

PollCall(r) ==
        /\ Fits(r.b)
        /\ b' = r.b
        /\ last' = Called("poll", r.ret, FALSE, r.panic)
        /\ run' = <<>>
        /\ pollcnt' = IF r.panic THEN 0
                      ELSE IF r.ret = None THEN pollcnt
                      ELSE IF b.history = <<>> THEN 1
                      ELSE IF pollcnt >= 1 /\ pollcnt <= b.history_limit
                           THEN pollcnt + 1
                      ELSE 0
        /\ cloned' = <<>>
        /\ Guarding(/\ b.items # <<>>
                    /\ \/ Len(b.items) >= b.items_limit
                       \/ Len(b.history) >= b.history_limit)
        /\ UNCHANGED now

Poll == PollCall(poll(b, now)) /\ UNCHANGED Scenario

Undo ==
    /\ Fits(undo(b))
    /\ b' = undo(b)
    /\ last' = Called("undo", None, FALSE, FALSE)
    /\ run' = <<>>
    /\ pollcnt' = 0
    /\ cloned' = <<>>
    /\ UNCHANGED <<now, added, polls, th, inserted>>

ClearItems ==
    /\ b' = clear_items(b)
    /\ last' = Called("clear_items", None, FALSE, FALSE)
    /\ run' = <<>>
    /\ cloned' = <<>>
    /\ inserted' = NotCounted
    /\ UNCHANGED <<now, pollcnt, added, polls, th>>

ClearHistory ==
    /\ b' = clear_history(b)
    /\ last' = Called("clear_history", None, FALSE, FALSE)
    /\ run' = <<>>
    /\ pollcnt' = 0
    /\ cloned' = <<>>
    /\ inserted' = NotCounted
    /\ UNCHANGED <<now, added, polls, th>>

SetHistoryLimitCall(limit) ==
    /\ b' = set_history_limit(b, limit)
    /\ last' = Called("set_history_limit", None, FALSE, FALSE)
    /\ run' = <<>>
    /\ pollcnt' = 0
    /\ cloned' = <<>>
    /\ UNCHANGED <<now, inserted>>

SetHistoryLimit == \E limit \in Limits : SetHistoryLimitCall(limit) /\ UNCHANGED Scenario

SetItemsLimitCall(limit) ==
    /\ b' = set_items_limit(b, limit)
    /\ last' = Called("set_items_limit", None, FALSE, FALSE)
    /\ run' = <<>>
    /\ cloned' = <<>>
    /\ UNCHANGED <<now, pollcnt, inserted>>

SetItemsLimit == \E limit \in Limits : SetItemsLimitCall(limit) /\ UNCHANGED Scenario

HistoryLimitGuard ==
    LET g == history_limit_guard(b)
    IN  /\ b' = g.b
        /\ last' = Called("history_limit_guard", None, g.ret, FALSE)
        /\ run' = <<>>
        /\ pollcnt' = 0
        /\ cloned' = <<>>
        /\ Guarding(g.ret)
        /\ UNCHANGED <<now, added, polls, th>>

ItemsLimitGuard ==
    LET g == items_limit_guard(b)
    IN  /\ b' = g.b
        /\ last' = Called("items_limit_guard", None, g.ret, FALSE)
        /\ run' = <<>>
        /\ cloned' = <<>>
        /\ Guarding(g.ret)
        /\ UNCHANGED <<now, pollcnt, added, polls, th>>

Clone ==
    /\ cloned' = <<clone(b)>>
    /\ last' = Called("clone", None, FALSE, FALSE)
    /\ run' = <<>>
    /\ UNCHANGED <<b, now, pollcnt, added, polls, th, inserted>>

Next ==
    \/ Tick
    \/ AddItem
    \/ AddItems
    \/ Poll
    \/ Undo
    \/ ClearItems
    \/ ClearHistory
    \/ SetHistoryLimit
    \/ SetItemsLimit
    \/ HistoryLimitGuard
    \/ ItemsLimitGuard
    \/ Clone

Spec == Init /\ [][Next]_vars

\* ---- a bucket with the default limits, which no call changes --------------
\* (no guard fires before MaxLen, so queues longer than MaxLimit are polled)
InitDefault == StartWith({None})

NextDefault ==
    \/ Tick
    \/ AddItem
    \/ AddItems
    \/ Poll
    \/ Undo
    \/ ClearItems
    \/ ClearHistory
    \/ HistoryLimitGuard
    \/ ItemsLimitGuard
    \/ Clone

SpecDefault == InitDefault /\ [][NextDefault]_vars

\* ---- counting what goes in: any calls in any order, on a bucket built with
\* any limits, the insertions counted.  The clock stands still (no timestamp
\* is looked at) and clone(), which leaves the bucket alone, is not called.
InitCount == Fresh(OptLimits, TRUE) /\ th = NoThreads

NextCount ==
    \/ AddItem
    \/ AddItems
    \/ Poll
    \/ Undo
    \/ ClearItems
    \/ ClearHistory
    \/ SetHistoryLimit
    \/ SetItemsLimit
    \/ HistoryLimitGuard
    \/ ItemsLimitGuard

SpecCount == InitCount /\ [][NextCount]_vars

\* ---- the FIFO scenario: add_item calls on a fresh bucket, then only polls --
InitFifo == StartWith(OptLimits)

FifoAdd ==
    /\ polls = <<>>
    /\ Len(added) < MaxAdds
    /\ \E item \in Item : AddItemCall(item) /\ added' = Append(added, item)
    /\ UNCHANGED <<polls, th>>

FifoPoll ==
    /\ Len(polls) < MaxAdds + 2
    /\ PollCall(poll(b, now))
    /\ polls' = Append(polls, IF poll(b, now).panic THEN Panicked ELSE poll(b, now).ret)
    /\ UNCHANGED <<added, th>>

NextFifo ==
    \/ Tick
    \/ FifoAdd
    \/ FifoPoll

SpecFifo == InitFifo /\ [][NextFifo]_vars

\* ---- the threads scenario: tests::threaded ---------------------------------
\* K threads share one fresh bucket behind a Mutex.  Thread t locks it
\* (lock().unwrap()), calls add_item(t) and poll() and drops the guard as its
\* closure returns.  A panic while the guard is held poisons the mutex, and
\* lock().unwrap() on a poisoned mutex panics in turn.
InitThreads ==
    /\ Fresh(OptLimits, FALSE)
    /\ \E k \in 1..MaxThreads :
          th = [pc |-> [t \in 1..k |-> "spawned"], holder |-> 0, poisoned |-> FALSE]

Threads == DOMAIN th.pc

ThreadLock(t) ==
    /\ th.pc[t] = "spawned"
    /\ th.holder = 0
    /\ th' = IF th.poisoned
             THEN [th EXCEPT !.pc[t] = "panicked"]
             ELSE [th EXCEPT !.pc[t] = "locked", !.holder = t]
    /\ UNCHANGED <<b, now, last, cloned, run, pollcnt, added, polls, inserted>>

ThreadAdd(t) ==
    /\ th.pc[t] = "locked"
    /\ AddItemCall(t)
    /\ th' = [th EXCEPT !.pc[t] = "added"]
    /\ UNCHANGED <<added, polls>>

ThreadPoll(t) ==
    /\ th.pc[t] = "added"
    /\ PollCall(poll(b, now))
    /\ th' = IF poll(b, now).panic
             THEN [th EXCEPT !.pc[t] = "panicked", !.holder = 0, !.poisoned = TRUE]
             ELSE [th EXCEPT !.pc[t] = "joined", !.holder = 0]
    /\ UNCHANGED <<added, polls>>

ThreadStep == \E t \in Threads : ThreadLock(t) \/ ThreadAdd(t) \/ ThreadPoll(t)

NextThreads ==
    \/ Tick
    \/ ThreadStep

\* The mutex is handed to some waiting thread while one waits: a thread
\* that can take a step is not kept from it for ever.
SpecThreads == InitThreads /\ [][NextThreads]_vars /\ WF_vars(ThreadStep)

\* ==== the claims ===========================================================

\* C1 (as claimed): clone() returns a bucket with the source's name, items and
\* limits and an EMPTY history, also when the source's history is not empty.
\* The code copies the history (line 130).
CloneHasEmptyHistory ==
    cloned # <<>> =>
        /\ cloned[1].name = b.name
        /\ cloned[1].items = b.items
        /\ cloned[1].items_limit = b.items_limit
        /\ cloned[1].history_limit = b.history_limit
        /\ cloned[1].history = <<>>

\* C2 (as claimed): no call aborts.  poll() on a non-empty queue either
\* returns Some(item) or panics at the unwrap of line 114, so this also says
\* that such a poll returns Some(item).  The code panics in poll() when it
\* finds the items limit reached.
NoCallPanics == ~last.panic

\* C3 (as claimed): in every reachable state len(items) <= items_limit.
ItemsWithinLimit == Len(b.items) <= b.items_limit

\* C3 (amended): right after add_item, poll, clear_items or items_limit_guard,
\* with items_limit >= 0, len(items) <= items_limit.
ItemsWithinLimitAfterGuardedCall ==
    (/\ last.op \in {"add_item", "poll", "clear_items", "items_limit_guard"}
     /\ b.items_limit >= 0)
        => Len(b.items) <= b.items_limit

ItemsFilledToLimit ==
    /\ last.op = "add_item"
    /\ b.items_limit >= 2
    /\ Len(b.items) = b.items_limit

\* C4 (as claimed): in every reachable state len(history) <= history_limit.
HistoryWithinLimit == Len(b.history) <= b.history_limit

\* C4 (amended): right after a poll that returned an item, with
\* history_limit >= 1, and right after history_limit_guard or clear_history,
\* with history_limit >= 0, len(history) <= history_limit.
HistoryWithinLimitAfterGuardedCall ==
    (\/ last.op = "poll" /\ last.ret # None /\ b.history_limit >= 1
     \/ last.op \in {"history_limit_guard", "clear_history"} /\ b.history_limit >= 0)
        => Len(b.history) <= b.history_limit

HistoryFilledToLimit ==
    /\ last.op = "poll"
    /\ last.ret # None
    /\ b.history_limit >= 2
    /\ Len(b.history) = b.history_limit

\* C5: k add_item calls on a fresh bucket, k below items_limit, then only
\* polls: the i-th poll returns the i-th item added, every later poll None.
FifoOrder ==
    Len(added) < b.items_limit =>
        \A i \in 1..Len(polls) :
            polls[i] = IF i <= Len(added) THEN Some(added[i]) ELSE None

FifoDrained ==
    /\ Len(added) >= 2
    /\ Len(added) < b.items_limit
    /\ added[1] # added[2]
    /\ Len(polls) = Len(added) + 1

\* C6 (as claimed): a poll that returns an item leaves history exactly one
\* entry longer than it found it.
PollGrowsHistoryByOne ==
    [][(last'.op = "poll" /\ last'.ret # None /\ Poll) => Len(b'.history) = Len(b.history) + 1]_vars

\* C6 (amended): a poll that returns an item leaves history one entry longer
\* when the history limit was not reached before the call, and with exactly
\* one entry when it was.
PollGrowsHistoryByOneOrRestarts ==
    [][(last'.op = "poll" /\ last'.ret # None /\ Poll) =>
          Len(b'.history) = IF Len(b.history) >= b.history_limit
                            THEN 1
                            ELSE Len(b.history) + 1]_vars

PollGrewHistory ==
    /\ last.op = "poll"
    /\ last.ret # None
    /\ Len(b.history) >= 2

\* C7: with a clock that never goes backwards, the timestamps of consecutive
\* history entries never decrease.
EpochsNonDecreasing ==
    \A i \in 1..(Len(b.history) - 1) : b.history[i][2] <= b.history[i + 1][2]

EpochsIncreased ==
    /\ Len(b.history) >= 2
    /\ b.history[1][2] < b.history[2][2]

\* C8: undo() right after a poll() that returned x appends exactly x to the
\* tail of items and leaves history one entry shorter; undo() on an empty
\* history changes nothing.
UndoRestoresPolled ==
    [][(last'.op = "undo" /\ Undo) =>
          /\ b.history = <<>> => b' = b
          /\ (last.op = "poll" /\ last.ret # None) =>
                /\ b'.items = Append(b.items, last.ret[1])
                /\ Len(b'.history) = Len(b.history) - 1
                /\ b'.name = b.name
                /\ b'.items_limit = b.items_limit
                /\ b'.history_limit = b.history_limit]_vars

UndoneAfterPoll ==
    /\ last.op = "undo"
    /\ last.pp # None
    /\ Len(b.items) >= 2

\* C9: with items_limit = N >= 1, N add_item calls in a row on an empty
\* queue all insert, in call order, and the next one leaves items empty.
ItemsLimitRun ==
    (run # <<>> /\ b.items_limit >= 1) =>
        /\ Len(run) <= b.items_limit => b.items = run
        /\ Len(run) = b.items_limit + 1 => b.items = <<>>

ItemsLimitTripped ==
    /\ b.items_limit >= 2
    /\ Len(run) = b.items_limit + 1
    /\ b.items = <<>>

\* C11: K threads, K below both limits, each doing add_item(t) and poll()
\* under the mutex: in every interleaving no thread panics, all join, and then
\* history has exactly K single-item entries, one per thread, and items is
\* empty.
ThreadsBelowLimits ==
    /\ Cardinality(Threads) < b.items_limit
    /\ Cardinality(Threads) < b.history_limit

AllJoined == \A t \in Threads : th.pc[t] = "joined"

ThreadsResult ==
    /\ Len(b.history) = Cardinality(Threads)
    /\ \A i \in 1..Len(b.history) : Len(b.history[i][1]) = 1
    /\ {b.history[i][1][1] : i \in 1..Len(b.history)} = Threads
    /\ b.items = <<>>

ThreadsAllPolled ==
    ThreadsBelowLimits =>
        /\ [](\A t \in Threads : th.pc[t] # "panicked")
        /\ [](AllJoined => ThreadsResult)
        /\ <>AllJoined

ThreadsJoined ==
    /\ Cardinality(Threads) >= 2
    /\ ThreadsBelowLimits
    /\ AllJoined
    /\ b.history[1][1] # <<1>>

\* C10: with history_limit = N >= 1 and an empty history, N successful polls
\* leave N entries, and the next successful poll leaves exactly one entry,
\* holding the item it returned.
HistoryLimitRun ==
    (pollcnt >= 1 /\ b.history_limit >= 1) =>
        /\ pollcnt <= b.history_limit => Len(b.history) = pollcnt
        /\ pollcnt = b.history_limit + 1 =>
              /\ Len(b.history) = 1
              /\ (last.op = "poll" /\ last.ret # None) => b.history[1][1] = last.ret

HistoryLimitTripped ==
    /\ b.history_limit >= 2
    /\ pollcnt = b.history_limit + 1
    /\ last.op = "poll"
    /\ last.ret # None
    /\ Len(b.history) = 1

\* C12: add_items(batch) is all or nothing.  When the items limit is not
\* reached the whole batch is appended behind the existing items, in the
\* batch's order; when it is reached nothing is inserted and items is left
\* empty.  Stated of the call made with any batch on any bucket the program
\* can hold.
AddItemsAllOrNothing ==
    \A its \in Batches :
        add_items(b, its) =
            [b EXCEPT !.items = IF Len(b.items) >= b.items_limit
                                THEN <<>>
                                ELSE b.items \o its]

BatchAppendedBehind ==
    /\ last.op = "add_items"
    /\ ~last.fired
    /\ Len(b.items) = b.items_limit + 1
    /\ b.items_limit >= 2

\* C13: poll() on an empty queue returns None and changes nothing: no entry
\* is recorded and no guard fires, whatever the limits and the history are.
PollOnEmptyIsNoOp ==
    [][(last'.op = "poll" /\ b.items = <<>> /\ Poll) =>
          /\ last'.ret = None
          /\ ~last'.panic
          /\ b' = b]_vars

PolledEmptyAtHistoryLimit ==
    /\ last.op = "poll"
    /\ last.ret = None
    /\ ~last.panic
    /\ b.history # <<>>
    /\ Len(b.history) >= b.history_limit
    /\ Len(b.items) >= b.items_limit

\* C14 (as claimed): when add_item has just appended its item, the poll that
\* follows does not fire the items guard and returns the front item.  The
\* code fires the guard, and panics, when that add_item filled the queue up
\* to the limit.
PollAfterAddReturnsFront ==
    [][(last.op = "add_item" /\ ~last.fired /\ last'.op = "poll" /\ Poll) =>
          /\ ~last'.panic
          /\ last'.ret = Some(Head(b.items))
          /\ b'.items = Tail(b.items)]_vars

\* C15: items_limit_guard() returns true and empties items exactly when
\* len(items) >= items_limit, and otherwise returns false and changes nothing;
\* history_limit_guard() does the same for history.  Neither touches the other
\* sequence, the limits or the name.
GuardsFireExactlyAtLimit ==
    [][/\ (last'.op = "items_limit_guard" /\ ItemsLimitGuard) =>
             IF Len(b.items) >= b.items_limit
             THEN last'.fired /\ b' = [b EXCEPT !.items = <<>>]
             ELSE ~last'.fired /\ b' = b
       /\ (last'.op = "history_limit_guard" /\ HistoryLimitGuard) =>
             IF Len(b.history) >= b.history_limit
             THEN last'.fired /\ b' = [b EXCEPT !.history = <<>>]
             ELSE ~last'.fired /\ b' = b]_vars

ItemsGuardFiredAtLimit ==
    /\ last.op = "items_limit_guard"
    /\ last.fired
    /\ b.items_limit >= 1
    /\ b.history # <<>>

\* C16: set_items_limit(n) and set_history_limit(n) store n and change
\* nothing else, also when items or history is already as long as n or longer.
SettersChangeOnlyTheLimit ==
    [][/\ last'.op = "set_items_limit" =>
             \A n \in Limits :
                 SetItemsLimitCall(n) => b' = [b EXCEPT !.items_limit = n]
       /\ last'.op = "set_history_limit" =>
             \A n \in Limits :
                 SetHistoryLimitCall(n) => b' = [b EXCEPT !.history_limit = n]]_vars

LimitSetBelowLength ==
    /\ last.op = "set_items_limit"
    /\ b.items # <<>>
    /\ Len(b.items) > b.items_limit

\* C17 (as claimed): with items_limit <= 0 every add_item and add_items fires
\* the guard and leaves items empty; with history_limit <= 0 every poll that
\* records an entry has fired the history guard first, so that entry is the
\* only one; and no call fails because of such a limit.  The code panics in
\* poll() when items_limit <= 0 and items is not empty.
NonPositiveLimitsNeverFail ==
    [][/\ (b.items_limit <= 0 /\ last'.op \in {"add_item", "add_items"}
                              /\ (AddItem \/ AddItems)) =>
             last'.fired /\ b'.items = <<>>
       /\ (b.history_limit <= 0 /\ last'.op = "poll" /\ last'.ret # None /\ Poll) =>
             Len(b'.history) = 1
       /\ b.items_limit <= 0 => ~last'.panic]_vars

\* C18: with a non-empty history, undo() removes the last entry only and
\* appends its item behind the items already queued, whatever items_limit
\* is; the earlier entries, the limits and the name stay as they are.
UndoMovesLastEntryToTail ==
    [][(last'.op = "undo" /\ b.history # <<>> /\ Undo) =>
          LET n == Len(b.history)
          IN  b' = [b EXCEPT !.items = @ \o b.history[n][1],
                             !.history = SubSeq(@, 1, n - 1)]]_vars

UndoneAboveLimit ==
    /\ last.op = "undo"
    /\ b.items_limit >= 1
    /\ Len(b.items) > b.items_limit
    /\ b.items[1] # b.items[Len(b.items)]

\* C19: history is a log of single-item snapshots.  A call leaves it as it
\* was, or empty (clear_history, a history guard that fired), or without its
\* last entry (undo), or with one entry appended (a poll that returned an
\* item, whose own guard may have emptied the log first); the entries that
\* stay keep their snapshot, timestamp and place.
HistoryIsALog ==
    [][LET h == b.history
           k == b'.history
       IN  /\ \A i \in 1..Len(k) : Len(k[i][1]) = 1
           /\ \/ k = h
              \/ /\ k = <<>>
                 /\ last'.op \in {"clear_history", "history_limit_guard", "poll", "undo"}
              \/ /\ h # <<>>
                 /\ k = SubSeq(h, 1, Len(h) - 1)
                 /\ last'.op = "undo"
              \/ /\ k # <<>>
                 /\ SubSeq(k, 1, Len(k) - 1) \in {h, <<>>}
                 /\ last'.op = "poll"
                 /\ k[Len(k)] = <<last'.ret, now>>]_vars

HistoryKeptOlderEntry ==
    /\ last.op = "poll"
    /\ last.ret # None
    /\ Len(b.history) >= 2
    /\ b.history[1] # b.history[2]

\* C20: while no guard has fired and nothing has been cleared, every item is
\* as often in items and the history snapshots together as it was inserted
\* by add_item and add_items.
HistoryCount(x) == Cardinality({i \in 1..Len(b.history) : b.history[i][1] = <<x>>})

ItemsConserved ==
    inserted.clean =>
        \A x \in Universe :
            inserted.count[x] = Count(x, b.items) + HistoryCount(x)

ItemMovedBack ==
    /\ inserted.clean
    /\ last.op = "undo"
    /\ last.pp # None
    /\ b.history # <<>>
    /\ Len(b.items) >= 2

====
